---- MODULE Spec2Model ----
(***************************************************************************)
(* Registration tester agent: the attempt / verify / decide retry loop.    *)
(*                                                                         *)
(*   tester_agent/runner.py        RegistrationTestRunner.run              *)
(*   tester_agent/browser_flow.py  BrowserRegistrationFlow.run_attempt,    *)
(*                                 verify_dashboard                        *)
(*   tester_agent/qwen_reasoner.py QwenThinkingReasoner.decide and helpers *)
(*   tester_agent/config.py        build_config                            *)
(*   registration_tester_agent.py  async_main                              *)
(*                                                                         *)
(* Python values are modelled as follows.  A str is a sequence of atoms    *)
(* (TLA+ strings): an atom is a literal of the source or a piece of text   *)
(* that comes from outside (a page's error text, an exception's message,   *)
(* a word of the provider's answer).  "" is <<>>.  None is the sequence    *)
(* None below, which no str of the model equals.  A dict is a function     *)
(* from keys to values whose DOMAIN is the set of keys present.            *)
(***************************************************************************)
EXTENDS Integers, Sequences, FiniteSets, TLC

VARIABLES
  base_url,         \* --base-url or BASE_URL, "" when neither is given
  retry_delay_seconds, \* AgentConfig.retry_delay_seconds
  assistant,        \* QwenThinkingReasoner._assistant and _assistant_error
  exit_code,        \* the status the process exits with, -1 while it runs
  provider,         \* what the provider does in the decide call examined
  decision,         \* what that decide call returned
  max_retries,      \* AgentConfig.max_retries
  qwen_enabled,     \* AgentConfig.qwen.enabled
  pc,               \* where RegistrationTestRunner.run / run_attempt stands
  attempt,          \* the loop variable of run()
  report,           \* the report dict of run()
  result,           \* the result dict of the run_attempt call in progress
  browser_open,     \* browsers launched and not yet closed
  context_open,     \* browser contexts created and not yet closed
  raised,           \* the exception in flight, NoExc when there is none
  body_failed,      \* the try body of the current run_attempt raised
  sleep_seconds,    \* the argument of the asyncio.sleep in progress
  report_files,     \* what was written to {test_id}_report.json, in order
  page,             \* the page handed to verify_dashboard
  checks            \* what verify_dashboard returned for it

\* The variables that only async_main's own steps and the decide call
\* examined on its own change.
process_vars == <<base_url, retry_delay_seconds, assistant, exit_code, provider, decision>>

vars == <<process_vars, max_retries, qwen_enabled, pc, attempt, report, result, browser_open,
          context_open, raised, body_failed, sleep_seconds, report_files,
          page, checks>>

-----------------------------------------------------------------------------
\* Bounds of the model.

\* Largest AgentConfig.max_retries explored.
MaxRetries == 3
\* Largest number of matches a page gives for one locator.
MaxCount == 2
\* Largest number of elements inside a .dropdown-menu.
MaxItems == 3

-----------------------------------------------------------------------------
\* Python values.

None == <<"<None>">>

EmptyDict == <<>>

\* dict.get(key, default)
Get(d, key, default) == IF key \in DOMAIN d THEN d[key] ELSE default

\* d[key] = value on a dict
Put(d, key, value) == (key :> value) @@ d

\* Variant: 'x if x is not None else y', which lets "" through.
StrOrNoneOnly(x, y) == IF x = None THEN y ELSE x

\* 'x or y' on str | None
StrOr(x, y) == IF x = None \/ x = <<>> THEN y ELSE x

\* sep.join(parts), parts a list of str
RECURSIVE Join(_, _)
Join(sep, parts) ==
  IF parts = <<>> THEN <<>>
  ELSE IF Len(parts) = 1 THEN parts[1]
  ELSE parts[1] \o sep \o Join(sep, Tail(parts))

-----------------------------------------------------------------------------
\* BrowserRegistrationFlow.verify_dashboard
\* (the source's backquotes are written ' in the sentences below)

ProblemNoDropdown == <<"Missing 'div.model-select.dropdown'.">>
ProblemNoMenu     == <<"Missing '.dropdown-menu' inside model select container.">>
ProblemFewItems   == <<"Expected multiple elements inside '.dropdown-menu'.">>
ProblemNoButton   == <<"Missing 'button#generateButton'.">>
Space             == <<" ">>

\* What the locators of verify_dashboard count on a page:
\*   dropdowns  page.locator("div.model-select.dropdown").count()
\*   menus      .dropdown-menu inside the first such container
\*   children   :scope > * of the first menu
\*   tagged     "li, a, button, div" inside the first menu, counted by a
\*              later query of the live page
\*   buttons    page.locator("button#generateButton").count()
\* A page without the container has no menu in it, and one without a menu
\* has no items.
Pages ==
  { p \in [dropdowns : 0..MaxCount, menus : 0..MaxCount, children : 0..MaxItems,
           tagged : 0..MaxItems, buttons : 0..MaxCount] :
      /\ p.dropdowns = 0 => p.menus = 0
      /\ p.menus = 0 => p.children = 0 /\ p.tagged = 0 }

\* Variant: the menu and the items are reported only when the container
\* exists.
DashboardProblemsIndependent(exists_model_dropdown, dropdown_menu_count, dropdown_item_count, generate_button_exists) ==
  Join(Space,
       (IF ~exists_model_dropdown THEN <<ProblemNoDropdown>> ELSE <<>>)
    \o (IF exists_model_dropdown /\ dropdown_menu_count = 0
          THEN <<ProblemNoMenu>> ELSE <<>>)
    \o (IF exists_model_dropdown /\ dropdown_item_count < 2
          THEN <<ProblemFewItems>> ELSE <<>>)
    \o (IF ~generate_button_exists THEN <<ProblemNoButton>> ELSE <<>>))

DashboardProblems(exists_model_dropdown, dropdown_menu_count, dropdown_item_count, generate_button_exists) ==
  Join(Space,
       (IF ~exists_model_dropdown THEN <<ProblemNoDropdown>> ELSE <<>>)
    \o (IF dropdown_menu_count = 0 THEN <<ProblemNoMenu>> ELSE <<>>)
    \o (IF dropdown_item_count < 2 THEN <<ProblemFewItems>> ELSE <<>>)
    \o (IF ~generate_button_exists THEN <<ProblemNoButton>> ELSE <<>>))

verify_dashboard(p) ==
  LET exists_model_dropdown == p.dropdowns > 0
      generate_button_exists == p.buttons > 0
      dropdown_menu_count == IF exists_model_dropdown THEN p.menus ELSE 0
      direct_children == IF p.children = 0 THEN p.tagged ELSE p.children
      dropdown_item_count ==
        IF exists_model_dropdown /\ dropdown_menu_count > 0
          THEN direct_children ELSE 0
      ok == /\ exists_model_dropdown
            /\ dropdown_menu_count > 0
            /\ dropdown_item_count >= 2
            /\ generate_button_exists
  IN IF ok
       THEN [ok |-> TRUE,
             model_select_dropdown_exists |-> TRUE,
             dropdown_menu_count |-> dropdown_menu_count,
             dropdown_item_count |-> dropdown_item_count,
             generate_button_exists |-> TRUE]
       ELSE [ok |-> FALSE,
             reason |-> DashboardProblems(exists_model_dropdown, dropdown_menu_count,
                                          dropdown_item_count, generate_button_exists),
             model_select_dropdown_exists |-> exists_model_dropdown,
             dropdown_menu_count |-> dropdown_menu_count,
             dropdown_item_count |-> dropdown_item_count,
             generate_button_exists |-> generate_button_exists]

-----------------------------------------------------------------------------
\* str helpers

Whitespace == {" ", "\n"}

\* str.strip()
RECURSIVE LStrip(_)
LStrip(s) == IF s # <<>> /\ Head(s) \in Whitespace THEN LStrip(Tail(s)) ELSE s

RECURSIVE RStrip(_)
RStrip(s) ==
  IF s # <<>> /\ s[Len(s)] \in Whitespace THEN RStrip(SubSeq(s, 1, Len(s) - 1)) ELSE s

Strip(s) == RStrip(LStrip(s))

\* str.lower(), atom by atom: the atoms of the model that hold an upper-case
\* letter, each with its lower-case form.
LowerTable ==
     ("Timeout: " :> "timeout: ")
  @@ ("Unhandled error: " :> "unhandled error: ")
  @@ ("Timeout 30000ms exceeded." :> "timeout 30000ms exceeded.")
  @@ ("Cannot find 'Registration' link on login screen."
        :> "cannot find 'registration' link on login screen.")
  @@ ("Registration did not redirect to dashboard URL."
        :> "registration did not redirect to dashboard url.")
  @@ ("Email already exists." :> "email already exists.")
  @@ ("Missing 'div.model-select.dropdown'." :> "missing 'div.model-select.dropdown'.")
  @@ ("Missing '.dropdown-menu' inside model select container."
        :> "missing '.dropdown-menu' inside model select container.")
  @@ ("Expected multiple elements inside '.dropdown-menu'."
        :> "expected multiple elements inside '.dropdown-menu'.")
  @@ ("Missing 'button#generateButton'." :> "missing 'button#generatebutton'.")
  @@ ("Duplicate entry" :> "duplicate entry")
  @@ ("Request timed out" :> "request timed out")
  @@ ("CAPTCHA required" :> "captcha required")
  @@ ("HTTP 503 Service Unavailable" :> "http 503 service unavailable")
  @@ ("HTTP 500" :> "http 500")
  @@ ("Bad Gateway (502)" :> "bad gateway (502)")
  @@ ("Waited 1500 ms" :> "waited 1500 ms")

LowerAtom(a) == IF a \in DOMAIN LowerTable THEN LowerTable[a] ELSE a

Lower(s) == [i \in DOMAIN s |-> LowerAtom(s[i])]

\* `marker in s`: the lower-case atoms of the model in which each marker of
\* _fallback_message occurs.  No marker spans two atoms of the model.  The
\* source's Cyrillic marker (Russian for "exist") is written "sushchestv".
Occurrences ==
     ("already"   :> {"email already exists."})
  @@ ("duplicate" :> {"duplicate entry"})
  @@ ("sushchestv" :> {"polzovatel uzhe sushchestvuet"})
  @@ ("timeout"   :> {"timeout: ", "timeout 30000ms exceeded."})
  @@ ("timed out" :> {"request timed out"})
  @@ ("captcha"   :> {"captcha required"})
  @@ ("500"       :> {"http 500", "waited 1500 ms"})
  @@ ("502"       :> {"bad gateway (502)"})
  @@ ("503"       :> {"http 503 service unavailable"})

In(marker, s) == \E i \in DOMAIN s : s[i] \in Occurrences[marker]

-----------------------------------------------------------------------------
\* JSON as the provider's answer holds it.  The text is a str whose atoms are
\* "{", "}", ",", whitespace, whole members (key: value, the key's quotes
\* dropped, a string value in '...') and free words.  A JSON value is a
\* record of one shape: t names the type, b, n or s holds the value.

JBool(b) == [t |-> "bool", b |-> b, n |-> 0, s |-> <<>>]
JInt(n)  == [t |-> "int", b |-> FALSE, n |-> n, s |-> <<>>]
JStr(s)  == [t |-> "str", b |-> FALSE, n |-> 0, s |-> s]
JNull    == [t |-> "null", b |-> FALSE, n |-> 0, s |-> <<>>]

\* The member atoms of the model: what json.loads makes of each.
MemberTable ==
     ("next_action: 'wait longer'"
        :> [key |-> "next_action", val |-> JStr(<<"wait longer">>)])
  @@ ("next_action: ''" :> [key |-> "next_action", val |-> JStr(<<>>)])
  @@ ("should_retry: false" :> [key |-> "should_retry", val |-> JBool(FALSE)])
  @@ ("should_retry: true" :> [key |-> "should_retry", val |-> JBool(TRUE)])
  @@ ("should_retry: 'false'" :> [key |-> "should_retry", val |-> JStr(<<"false">>)])
  @@ ("should_retry: 0" :> [key |-> "should_retry", val |-> JInt(0)])
  @@ ("retry_delay_seconds: 0" :> [key |-> "retry_delay_seconds", val |-> JInt(0)])
  @@ ("retry_delay_seconds: 5" :> [key |-> "retry_delay_seconds", val |-> JInt(5)])
  @@ ("retry_delay_seconds: -1" :> [key |-> "retry_delay_seconds", val |-> JInt(-1)])
  @@ ("retry_delay_seconds: '5'"
        :> [key |-> "retry_delay_seconds", val |-> JStr(<<"5">>)])
  @@ ("retry_delay_seconds: 'soon'"
        :> [key |-> "retry_delay_seconds", val |-> JStr(<<"soon">>)])
  @@ ("retry_delay_seconds: null" :> [key |-> "retry_delay_seconds", val |-> JNull])

\* The str atoms int() reads as a number.
Numerals == ("0" :> 0) @@ ("5" :> 5) @@ ("-1" :> -1)

\* bool(v)
Truthy(v) ==
  CASE v.t = "bool" -> v.b
    [] v.t = "int"  -> v.n # 0
    [] v.t = "str"  -> v.s # <<>>
    [] OTHER        -> FALSE

\* int(v) raises ValueError or TypeError on these
IntRaises(v) ==
  \/ v.t = "null"
  \/ v.t = "str" /\ ~(Len(Strip(v.s)) = 1 /\ Strip(v.s)[1] \in DOMAIN Numerals)

\* str(exc) of the exception int(v) raises
IntError(v) ==
  IF v.t = "null"
    THEN <<"int() argument must be a string, a bytes-like object or a real number, not 'NoneType'">>
    ELSE <<"invalid literal for int() with base 10: ">> \o v.s

\* int(v) where it does not raise
IntOf(v) ==
  CASE v.t = "int"  -> v.n
    [] v.t = "bool" -> IF v.b THEN 1 ELSE 0
    [] OTHER        -> Numerals[Strip(v.s)[1]]

\* str(v) of a truthy value
StrOf(v) ==
  CASE v.t = "str"  -> v.s
    [] v.t = "int"  -> <<ToString(v.n)>>
    [] OTHER        -> <<"True">>

NoWhitespace(s) == SelectSeq(s, LAMBDA a : a \notin Whitespace)

\* json.loads(text) gives a dict: "{" member ("," member)* "}" or "{" "}",
\* whitespace between the tokens allowed.
IsJsonObject(text) ==
  LET t == NoWhitespace(text)
      n == Len(t)
  IN /\ n >= 2
     /\ t[1] = "{"
     /\ t[n] = "}"
     /\ \/ n = 2
        \/ /\ n % 2 = 1
           /\ \A i \in 2..(n - 1) :
                IF i % 2 = 0 THEN t[i] \in DOMAIN MemberTable ELSE t[i] = ","

\* The dict json.loads gives for such a text; a repeated key keeps its last
\* value.
RECURSIVE DictOfMembers(_)
DictOfMembers(t) ==
  IF t = <<>> THEN EmptyDict
  ELSE LET m == t[Len(t)]
           rest == DictOfMembers(SubSeq(t, 1, Len(t) - 1))
       IN IF m \in DOMAIN MemberTable
            THEN Put(rest, MemberTable[m].key, MemberTable[m].val)
            ELSE rest

JsonObject(text) == DictOfMembers(NoWhitespace(text))

\* dict | None, as _try_extract_json returns it
NoDict == [is_none |-> TRUE, dict |-> EmptyDict]

SomeDict(d) == [is_none |-> FALSE, dict |-> d]

\* QwenThinkingReasoner._try_extract_json: the dict, or None.
\* re.search(r"\{.*\}", raw, re.DOTALL) is greedy: it matches from the first
\* "{" to the last "}" after it.
FirstBrace(raw) == CHOOSE i \in DOMAIN raw : raw[i] = "{" /\ \A j \in 1..(i - 1) : raw[j] # "{"

LastBrace(raw) ==
  CHOOSE i \in DOMAIN raw : raw[i] = "}" /\ \A j \in (i + 1)..Len(raw) : raw[j] # "}"

HasMatch(raw) ==
  /\ \E i \in DOMAIN raw : raw[i] = "{"
  /\ \E i \in DOMAIN raw : raw[i] = "}" /\ i > FirstBrace(raw)

try_extract_json(raw0) ==
  LET raw == Strip(raw0)
  IN IF raw = <<>> THEN NoDict
     ELSE IF IsJsonObject(raw) THEN SomeDict(JsonObject(raw))
     ELSE IF ~HasMatch(raw) THEN NoDict
     ELSE LET match == SubSeq(raw, FirstBrace(raw), LastBrace(raw))
          IN IF IsJsonObject(match) THEN SomeDict(JsonObject(match)) ELSE NoDict

-----------------------------------------------------------------------------
\* QwenThinkingReasoner._fallback_message.  The source's Russian sentences
\* are written in English.

AdviceNewIdentity ==
  <<"Email probably exists already, generate a new user and retry.">>
AdviceIncreaseWait ==
  <<"Looks like a slow server response, increase the wait and retry.">>
AdviceCaptcha ==
  <<"CAPTCHA detected, needs a bypass in the test environment or a manual check.">>
AdviceServerError ==
  <<"Server error, retry later and keep the artifacts.">>
AdviceGeneric ==
  <<"Retry with new data and keep more diagnostic artifacts.">>

\* Variant: the CAPTCHA rule is tried first.
fallback_messageCaptchaFirst(reason) ==
  IF In("captcha", reason)
    THEN AdviceCaptcha
  ELSE IF In("already", reason) \/ In("duplicate", reason) \/ In("sushchestv", reason)
    THEN AdviceNewIdentity
  ELSE IF In("timeout", reason) \/ In("timed out", reason)
    THEN AdviceIncreaseWait
  ELSE IF In("500", reason) \/ In("502", reason) \/ In("503", reason)
    THEN AdviceServerError
  ELSE AdviceGeneric

fallback_message(reason) ==
  IF In("already", reason) \/ In("duplicate", reason) \/ In("sushchestv", reason)
    THEN AdviceNewIdentity
  ELSE IF In("timeout", reason) \/ In("timed out", reason)
    THEN AdviceIncreaseWait
  ELSE IF In("captcha", reason)
    THEN AdviceCaptcha
  ELSE IF In("500", reason) \/ In("502", reason) \/ In("503", reason)
    THEN AdviceServerError
  ELSE AdviceGeneric

\* The delay _fallback writes into a decision.
FallbackDelay == 3

\* The delay _parse_response writes when the provider names none.
ParseDefaultDelay == 3

\* Variant: the heuristic gives up one attempt early.
fallbackOneEarly(attempt_result, n, max) ==
  LET reason == Lower(StrOr(Get(attempt_result, "reason", None), <<>>))
  IN [next_action |-> fallback_message(reason),
      should_retry |-> n + 1 < max,
      retry_delay_seconds |-> FallbackDelay,
      source |-> "heuristic"]

\* Variant: a CAPTCHA reason stops the retries.
fallbackCaptchaStops(attempt_result, n, max) ==
  LET reason == Lower(StrOr(Get(attempt_result, "reason", None), <<>>))
  IN [next_action |-> fallback_message(reason),
      should_retry |-> n < max /\ ~In("captcha", reason),
      retry_delay_seconds |-> FallbackDelay,
      source |-> "heuristic"]

\* QwenThinkingReasoner._fallback
fallback(attempt_result, n, max) ==
  LET reason == Lower(StrOr(Get(attempt_result, "reason", None), <<>>))
  IN [next_action |-> fallback_message(reason),
      should_retry |-> n < max,
      retry_delay_seconds |-> FallbackDelay,
      source |-> "heuristic"]

\* QwenThinkingReasoner._parse_response raises: int() of the delay fails
\* (str() and bool() of the other two fields never do)
parse_response_raises(raw) ==
  LET payload == try_extract_json(raw)
  IN /\ ~payload.is_none
     /\ DOMAIN payload.dict # {}
     /\ "retry_delay_seconds" \in DOMAIN payload.dict
     /\ IntRaises(payload.dict["retry_delay_seconds"])

\* QwenThinkingReasoner._parse_response where it returns
parse_response(raw) ==
  LET payload == try_extract_json(raw)
  IN IF ~payload.is_none /\ DOMAIN payload.dict # {}
       THEN [next_action |->
               IF "next_action" \in DOMAIN payload.dict
                  /\ Truthy(payload.dict["next_action"])
                 THEN StrOf(payload.dict["next_action"])
                 ELSE fallback_message(<<>>),
             should_retry |->
               IF "should_retry" \in DOMAIN payload.dict
                 THEN Truthy(payload.dict["should_retry"]) ELSE TRUE,
             retry_delay_seconds |->
               IF "retry_delay_seconds" \in DOMAIN payload.dict
                 THEN IntOf(payload.dict["retry_delay_seconds"])
                 ELSE ParseDefaultDelay]
       ELSE [next_action |-> StrOr(Strip(raw), fallback_message(<<>>)),
             should_retry |-> TRUE,
             retry_delay_seconds |-> ParseDefaultDelay]

\* What self._run_assistant(messages) does: it raises, with str(exc) = text,
\* or returns text.
ProviderRaises(text) == [raises |-> TRUE, text |-> text]

ProviderReturns(text) == [raises |-> FALSE, text |-> text]

\* self._assistant and self._assistant_error: after __init__ began, once
\* _build_assistant returned an Assistant, and once its import failed.
NoAssistant == [built |-> FALSE, error |-> None]

BuiltAssistant == [built |-> TRUE, error |-> None]

FailedAssistant == [built |-> FALSE, error |-> <<"No module named 'qwen_agent'">>]

\* Variant: after an error of the provider the decision never retries.
decideErrorStops(enabled, asst, prov, attempt_result, n, max) ==
  IF ~enabled THEN fallback(attempt_result, n, max)
  ELSE IF ~asst.built
    THEN Put(Put(fallback(attempt_result, n, max), "source", "heuristic"),
             "framework_error",
             StrOr(asst.error, <<"Qwen-Agent Assistant unavailable.">>))
  ELSE IF prov.raises
    THEN Put(Put(Put(fallback(attempt_result, n, max), "should_retry", FALSE),
                 "source", "heuristic"),
             "framework_error", <<"Qwen-Agent call failed: ">> \o prov.text)
  ELSE IF parse_response_raises(prov.text)
    THEN Put(Put(fallback(attempt_result, n, max), "source", "heuristic"),
             "framework_error",
             <<"Qwen-Agent call failed: ">>
               \o IntError(try_extract_json(prov.text).dict["retry_delay_seconds"]))
  ELSE Put(Put(parse_response(prov.text), "source", "qwen-agent"),
           "raw_response", prov.text)

\* Variant: after an error of the provider the decision always retries.
decideErrorRetries(enabled, asst, prov, attempt_result, n, max) ==
  IF ~enabled THEN fallback(attempt_result, n, max)
  ELSE IF ~asst.built
    THEN Put(Put(fallback(attempt_result, n, max), "source", "heuristic"),
             "framework_error",
             StrOr(asst.error, <<"Qwen-Agent Assistant unavailable.">>))
  ELSE IF prov.raises
    THEN Put(Put(Put(fallback(attempt_result, n, max), "should_retry", TRUE),
                 "source", "heuristic"),
             "framework_error", <<"Qwen-Agent call failed: ">> \o prov.text)
  ELSE IF parse_response_raises(prov.text)
    THEN Put(Put(fallback(attempt_result, n, max), "source", "heuristic"),
             "framework_error",
             <<"Qwen-Agent call failed: ">>
               \o IntError(try_extract_json(prov.text).dict["retry_delay_seconds"]))
  ELSE Put(Put(parse_response(prov.text), "source", "qwen-agent"),
           "raw_response", prov.text)

\* QwenThinkingReasoner.decide, given self._assistant and what the provider
\* does when called.
decide(enabled, asst, prov, attempt_result, n, max) ==
  IF ~enabled THEN fallback(attempt_result, n, max)
  ELSE IF ~asst.built
    THEN Put(Put(fallback(attempt_result, n, max), "source", "heuristic"),
             "framework_error",
             StrOr(asst.error, <<"Qwen-Agent Assistant unavailable.">>))
  ELSE IF prov.raises
    THEN Put(Put(fallback(attempt_result, n, max), "source", "heuristic"),
             "framework_error", <<"Qwen-Agent call failed: ">> \o prov.text)
  ELSE IF parse_response_raises(prov.text)
    THEN Put(Put(fallback(attempt_result, n, max), "source", "heuristic"),
             "framework_error",
             <<"Qwen-Agent call failed: ">>
               \o IntError(try_extract_json(prov.text).dict["retry_delay_seconds"]))
  ELSE Put(Put(parse_response(prov.text), "source", "qwen-agent"),
           "raw_response", prov.text)

-----------------------------------------------------------------------------
\* What the browser, the page and the provider may do during a run.

\* An exception in flight: its class (PlaywrightTimeoutError or any other
\* Exception), str(exc), and the place of run_attempt that raised it.
NoExc == [kind |-> "none", text |-> <<>>, origin |-> "none"]

TimeoutExc(text) == [kind |-> "Timeout", text |-> text, origin |-> "body"]

ErrorExc(text) == [kind |-> "Error", text |-> text, origin |-> "body"]

RaisedAt(exc, origin) == [exc EXCEPT !.origin = origin]

\* What a step of the try body may raise: a bounded wait that expires, or
\* the RuntimeError of _open_registration_via_home.
BodyExceptions ==
  { TimeoutExc(<<"Timeout 30000ms exceeded.">>),
    ErrorExc(<<"Cannot find 'Registration' link on login screen.">>) }

\* What a query of the page raises when its wait expires.
PageTimeout == TimeoutExc(<<"Timeout 30000ms exceeded.">>)

\* What a call on a browser that is gone raises.
BrowserGone == ErrorExc(<<"Target page, context or browser has been closed">>)

\* page.url after the submit, as path segments.
RunUrls == { <<"/en", "/generate">>, <<"/en", "/user", "/register">> }

\* AgentConfig.dashboard_url_pattern
dashboard_url_pattern == <<"/en", "/generate">>

\* bool(re.search(pattern, url)) for a pattern of literal segments
re_search(pattern, url) ==
  \E i \in 1..(Len(url) - Len(pattern) + 1) :
    SubSeq(url, i, i + Len(pattern) - 1) = pattern

\* The pages verify_dashboard sees during a run: a complete dashboard, and a
\* page with neither the container nor the button.
RunPages ==
  { [dropdowns |-> 1, menus |-> 1, children |-> 2, tagged |-> 0, buttons |-> 1],
    [dropdowns |-> 0, menus |-> 0, children |-> 0, tagged |-> 0, buttons |-> 0] }

\* What page.locator(selectors.error).first gives: how many elements match,
\* and the text_content() of the first.
ErrorElements ==
  { [count |-> 0, text |-> None],
    [count |-> 1, text |-> <<" ">>],
    [count |-> 1, text |-> <<" ", "Email already exists.", " ">>] }

\* BrowserRegistrationFlow._safe_text
safe_text(element) ==
  IF element.count = 0 THEN None
  ELSE IF element.text = None \/ element.text = <<>> THEN None
  ELSE Strip(element.text)

\* What the provider does when decide calls it.
ProviderBehaviours ==
  { ProviderRaises(<<"Connection refused">>),
    ProviderReturns(<<"{", "next_action: 'wait longer'", ",", "should_retry: false", "}">>),
    ProviderReturns(<<"Sure.", " ", "{", "retry_delay_seconds: 0", "}">>) }

\* {video_dir}/{test_id}_attempt{attempt}.webm
VideoPath(n) == <<"test_recordings/", "registration_test", "_attempt", ToString(n), ".webm">>

-----------------------------------------------------------------------------
\* async_main, RegistrationTestRunner.run and
\* BrowserRegistrationFlow.run_attempt

\* --base-url / BASE_URL: absent, or a site.
BaseUrls == { <<>>, <<"https://site.test">> }

\* RETRY_DELAY_SECONDS, where int() reads it: the default and another value.
RetryDelays == {3, 5}

\* The process starts: the arguments and the environment are what they are,
\* nothing is built yet.
Init ==
  /\ base_url \in BaseUrls
  /\ retry_delay_seconds \in RetryDelays
  /\ assistant = NoAssistant
  /\ exit_code = -1
  /\ provider = ProviderReturns(<<>>)
  /\ decision = EmptyDict
  /\ max_retries \in -1..MaxRetries
  /\ qwen_enabled \in BOOLEAN
  /\ pc = "main"
  /\ attempt = 0
  /\ report = EmptyDict
  /\ result = EmptyDict
  /\ browser_open = 0
  /\ context_open = 0
  /\ raised = NoExc
  /\ body_failed = FALSE
  /\ sleep_seconds = 0
  /\ report_files = <<>>
  /\ page = [dropdowns |-> 0, menus |-> 0, children |-> 0, tagged |-> 0, buttons |-> 0]
  /\ checks = EmptyDict

\* build_config: a missing base URL raises ValueError, and so does int() of a
\* setting that is no number; an integer of any size or sign is taken as it
\* is.  The exception leaves async_main.
BuildConfig ==
  /\ pc = "main"
  /\ \/ /\ base_url # <<>>
        /\ pc' = "construct"
        /\ UNCHANGED raised
     \/ /\ base_url = <<>>
        /\ raised' = RaisedAt(ErrorExc(<<"BASE_URL is required in .env (or pass --base-url).">>),
                              "config")
        /\ pc' = "fatal"
     \/ /\ base_url # <<>>
        /\ raised' = RaisedAt(ErrorExc(<<"invalid literal for int() with base 10: ">>),
                              "config")
        /\ pc' = "fatal"
  /\ UNCHANGED <<process_vars, max_retries, qwen_enabled, attempt, report, result,
                 browser_open, context_open, body_failed, sleep_seconds,
                 report_files, page, checks>>

\* RegistrationTestRunner.__init__: with delegation enabled the reasoner
\* builds its Assistant, and raises RuntimeError when it cannot.
Construct ==
  /\ pc = "construct"
  /\ IF qwen_enabled
       THEN \/ /\ assistant' = BuiltAssistant
               /\ pc' = "run"
               /\ UNCHANGED raised
            \/ /\ assistant' = FailedAssistant
               /\ raised' =
                    RaisedAt(ErrorExc(<<"QWEN_ENABLED=true, but Qwen-Agent Assistant is unavailable. ",
                                        "Install 'qwen-agent' and check settings. Details: ">>
                                        \o FailedAssistant.error),
                             "construct")
               /\ pc' = "fatal"
       ELSE /\ pc' = "run"
            /\ UNCHANGED <<assistant, raised>>
  /\ UNCHANGED <<base_url, retry_delay_seconds, exit_code, provider, decision,
                 max_retries, qwen_enabled, attempt, report, result,
                 browser_open, context_open, body_failed, sleep_seconds,
                 report_files, page, checks>>

\* run(), up to the loop: the report is built; range(1, max_retries + 1) is
\* empty when max_retries < 1.
Run ==
  /\ pc = "run"
  /\ report' = [max_retries |-> max_retries,
                qwen_enabled |-> qwen_enabled,
                attempts |-> <<>>,
                status |-> "failed"]
  /\ IF max_retries >= 1
       THEN attempt' = 1 /\ pc' = "loop"
       ELSE attempt' = attempt /\ pc' = "write_report"
  /\ UNCHANGED <<process_vars, max_retries, qwen_enabled, result, browser_open, context_open,
                 raised, body_failed, sleep_seconds, report_files, page, checks>>

\* One iteration starts: run_attempt is called and builds its result.
StartAttempt ==
  /\ pc = "loop"
  /\ result' = [attempt |-> attempt,
                success |-> FALSE,
                reason |-> None,
                video_path |-> None,
                dashboard_checks |-> EmptyDict]
  /\ body_failed' = FALSE
  /\ pc' = "launch"
  /\ UNCHANGED <<process_vars, max_retries, qwen_enabled, attempt, report, browser_open,
                 context_open, raised, sleep_seconds, report_files, page, checks>>

\* async_playwright() and chromium.launch(), outside the try: what they
\* raise leaves run_attempt and run.
Launch ==
  /\ pc = "launch"
  /\ \/ /\ browser_open' = browser_open + 1
        /\ pc' = "new_context"
        /\ UNCHANGED raised
     \/ /\ raised' = RaisedAt(BrowserGone, "launch")
        /\ pc' = "aborted"
        /\ UNCHANGED browser_open
  /\ UNCHANGED <<process_vars, max_retries, qwen_enabled, attempt, report, result, context_open,
                 body_failed, sleep_seconds, report_files, page, checks>>

\* _new_context(browser) and context.new_page(), outside the try as well.
NewContext ==
  /\ pc = "new_context"
  /\ \/ /\ context_open' = context_open + 1
        /\ pc' = "body"
        /\ UNCHANGED raised
     \/ \* browser.new_context raises
        /\ raised' = RaisedAt(BrowserGone, "new_context")
        /\ pc' = "aborted"
        /\ UNCHANGED context_open
     \/ \* context.new_page raises
        /\ context_open' = context_open + 1
        /\ raised' = RaisedAt(BrowserGone, "new_context")
        /\ pc' = "aborted"
  /\ UNCHANGED <<process_vars, max_retries, qwen_enabled, attempt, report, result, browser_open,
                 body_failed, sleep_seconds, report_files, page, checks>>

\* The try body up to the second screenshot: navigation, the entry points,
\* the form, the submit and the waits.
Body ==
  /\ pc = "body"
  /\ \/ /\ pc' = "classify"
        /\ UNCHANGED <<raised, body_failed>>
     \/ \E exc \in BodyExceptions :
          /\ raised' = exc
          /\ body_failed' = TRUE
          /\ pc' = "handler"
  /\ UNCHANGED <<process_vars, max_retries, qwen_enabled, attempt, report, result, browser_open,
                 context_open, sleep_seconds, report_files, page, checks>>

\* Variant: the URL check alone decides.
ClassifySuccessUrlOnly(is_dashboard_url, dashboard_checks) == is_dashboard_url

\* success = is_dashboard_url and dashboard_checks.get("ok", False)
ClassifySuccess(is_dashboard_url, dashboard_checks) ==
  is_dashboard_url /\ Get(dashboard_checks, "ok", FALSE)

\* The rest of the try body: the URL check, verify_dashboard, the verdict and
\* the reason.
Classify ==
  /\ pc = "classify"
  /\ \/ \* verify_dashboard raises
        /\ raised' = PageTimeout
        /\ body_failed' = TRUE
        /\ pc' = "handler"
        /\ UNCHANGED result
     \/ \E current_url \in RunUrls, p \in RunPages :
          LET is_dashboard_url == re_search(dashboard_url_pattern, current_url)
              dashboard_checks == verify_dashboard(p)
              success == ClassifySuccess(is_dashboard_url, dashboard_checks)
              classified == Put(Put(Put(result, "success", success),
                                    "final_url", current_url),
                                "dashboard_checks", dashboard_checks)
          IN IF ~is_dashboard_url
               THEN \/ \E element \in ErrorElements :
                         /\ result' =
                              Put(classified, "reason",
                                  StrOr(safe_text(element),
                                        <<"Registration did not redirect to dashboard URL.">>))
                         /\ pc' = "close_context"
                         /\ UNCHANGED <<raised, body_failed>>
                    \/ \* _safe_text raises
                       /\ result' = classified
                       /\ raised' = PageTimeout
                       /\ body_failed' = TRUE
                       /\ pc' = "handler"
               ELSE /\ result' =
                         IF ~Get(dashboard_checks, "ok", FALSE)
                           THEN Put(classified, "reason",
                                    Get(dashboard_checks, "reason",
                                        <<"Dashboard checks failed.">>))
                           ELSE classified
                    /\ pc' = "close_context"
                    /\ UNCHANGED <<raised, body_failed>>
  /\ UNCHANGED <<process_vars, max_retries, qwen_enabled, attempt, report, browser_open,
                 context_open, sleep_seconds, report_files, page, checks>>

\* The two except clauses: the error screenshot, then the reason.  What the
\* screenshot raises replaces the exception and goes on through finally.
Handler ==
  /\ pc = "handler"
  /\ \/ /\ result' =
             Put(result, "reason",
                 (IF raised.kind = "Timeout"
                    THEN <<"Timeout: ">> ELSE <<"Unhandled error: ">>) \o raised.text)
        /\ raised' = NoExc
     \/ /\ raised' = RaisedAt(BrowserGone, "screenshot")
        /\ UNCHANGED result
  /\ pc' = "close_context"
  /\ UNCHANGED <<process_vars, max_retries, qwen_enabled, attempt, report, browser_open,
                 context_open, body_failed, sleep_seconds, report_files, page, checks>>

\* finally: context.close()
CloseContext ==
  /\ pc = "close_context"
  /\ \/ /\ context_open' = context_open - 1
        /\ pc' = "close_browser"
        /\ UNCHANGED raised
     \/ /\ raised' = RaisedAt(BrowserGone, "cleanup")
        /\ pc' = "aborted"
        /\ UNCHANGED context_open
  /\ UNCHANGED <<process_vars, max_retries, qwen_enabled, attempt, report, result, browser_open,
                 body_failed, sleep_seconds, report_files, page, checks>>

\* Variant: the browser is closed only when the try body did not raise.
CloseBrowserUnlessFailed ==
  /\ pc = "close_browser"
  /\ browser_open' = IF body_failed THEN browser_open ELSE browser_open - 1
  /\ pc' = "finalize_video"
  /\ UNCHANGED <<process_vars, max_retries, qwen_enabled, attempt, report, result, context_open,
                 raised, body_failed, sleep_seconds, report_files, page, checks>>

\* finally: browser.close()
CloseBrowser ==
  /\ pc = "close_browser"
  /\ \/ /\ browser_open' = browser_open - 1
        /\ pc' = "finalize_video"
        /\ UNCHANGED raised
     \/ /\ raised' = RaisedAt(BrowserGone, "cleanup")
        /\ pc' = "aborted"
        /\ UNCHANGED browser_open
  /\ UNCHANGED <<process_vars, max_retries, qwen_enabled, attempt, report, result, context_open,
                 body_failed, sleep_seconds, report_files, page, checks>>

\* finally: the video is moved to its name (page.video is set, _new_context
\* records video), then run_attempt returns the result, or the exception in
\* flight leaves it.
FinalizeVideo ==
  /\ pc = "finalize_video"
  /\ \/ /\ result' = Put(result, "video_path", VideoPath(attempt))
        /\ pc' = IF raised = NoExc THEN "returned" ELSE "aborted"
        /\ UNCHANGED raised
     \/ \* recorded_video.path() or os.replace raises
        /\ raised' = RaisedAt(ErrorExc(<<"No such file or directory">>), "cleanup")
        /\ pc' = "aborted"
        /\ UNCHANGED result
  /\ UNCHANGED <<process_vars, max_retries, qwen_enabled, attempt, report, browser_open,
                 context_open, body_failed, sleep_seconds, report_files, page, checks>>

\* Variant: a success sets the status and leaves successful_attempt out.
RecordedNoIndex(rep, outcome, n) ==
  LET appended == Put(rep, "attempts", Append(rep["attempts"], outcome))
  IN IF Get(outcome, "success", FALSE)
       THEN Put(appended, "status", "success")
       ELSE appended

\* Variant: the outcome is put in front of the list.
RecordedInFront(rep, outcome, n) ==
  LET added == Put(rep, "attempts", <<outcome>> \o rep["attempts"])
  IN IF Get(outcome, "success", FALSE)
       THEN Put(Put(added, "status", "success"), "successful_attempt", n)
       ELSE added

\* The report after the outcome of attempt n is appended to it.
Recorded(rep, outcome, n) ==
  LET appended == Put(rep, "attempts", Append(rep["attempts"], outcome))
  IN IF Get(outcome, "success", FALSE)
       THEN Put(Put(appended, "status", "success"), "successful_attempt", n)
       ELSE appended

\* Variant: no break on success.
AfterOutcomeNoBreak(outcome, n, max) == IF n < max THEN "decide" ELSE "write_report"

\* Where run() goes once the outcome of attempt n is appended: a success
\* breaks, a failure asks the reasoner unless n is the last allowed attempt,
\* and then the range is exhausted.
AfterOutcome(outcome, n, max) ==
  IF Get(outcome, "success", FALSE) THEN "write_report"
  ELSE IF n < max THEN "decide"
  ELSE "write_report"

\* run_attempt has returned: the outcome is appended; a success ends the
\* loop, and so does the last allowed attempt.
AfterAttempt ==
  /\ pc = "returned"
  /\ report' = Recorded(report, result, attempt)
  /\ pc' = AfterOutcome(result, attempt, max_retries)
  /\ result' = EmptyDict
  /\ UNCHANGED <<process_vars, max_retries, qwen_enabled, attempt, browser_open, context_open,
                 raised, body_failed, sleep_seconds, report_files, page, checks>>

\* The outcome last appended, and the report with it replaced: attempt_result
\* is the dict that sits in report["attempts"].
LastOutcome == report["attempts"][Len(report["attempts"])]

\* Variant: the provenance of the decision is not written into the outcome.
AnnotatedNoSource(d) ==
  LET named == Put(LastOutcome, "next_action", Get(d, "next_action", None))
  IN IF "framework_error" \in DOMAIN d /\ d["framework_error"] # <<>>
       THEN Put(named, "framework_error", d["framework_error"])
       ELSE named

Annotated(d) ==
  LET named == Put(Put(LastOutcome, "next_action", Get(d, "next_action", None)),
                   "next_action_source", Get(d, "source", None))
  IN IF "framework_error" \in DOMAIN d /\ d["framework_error"] # <<>>
       THEN Put(named, "framework_error", d["framework_error"])
       ELSE named

\* The reasoner is asked, the outcome annotated, and the decision applied:
\* the sleep starts, or the loop ends.  Every decision of decide holds
\* should_retry and retry_delay_seconds, so the defaults of .get are not read.
Decide ==
  /\ pc = "decide"
  /\ \E prov \in ProviderBehaviours :
       LET d == decide(qwen_enabled, assistant, prov, LastOutcome, attempt, max_retries)
       IN /\ report' =
               Put(report, "attempts",
                   [report["attempts"] EXCEPT ![Len(report["attempts"])] =
                      Annotated(d)])
          /\ IF d["should_retry"]
               THEN /\ sleep_seconds' = d["retry_delay_seconds"]
                    /\ pc' = "sleep"
               ELSE /\ sleep_seconds' = sleep_seconds
                    /\ pc' = "write_report"
  /\ UNCHANGED <<process_vars, max_retries, qwen_enabled, attempt, result, browser_open,
                 context_open, raised, body_failed, report_files, page, checks>>

\* asyncio.sleep returns and the loop goes on to the next attempt.
Sleep ==
  /\ pc = "sleep"
  /\ attempt' = attempt + 1
  /\ sleep_seconds' = 0
  /\ pc' = "loop"
  /\ UNCHANGED <<process_vars, max_retries, qwen_enabled, report, result, browser_open,
                 context_open, raised, body_failed, report_files, page, checks>>

\* After the loop: the report is written and returned.
WriteReport ==
  /\ pc = "write_report"
  /\ report_files' = Append(report_files, report)
  /\ pc' = "done"
  /\ UNCHANGED <<process_vars, max_retries, qwen_enabled, attempt, report, result, browser_open,
                 context_open, raised, body_failed, sleep_seconds, page, checks>>

\* Variant: the process exits with 0 whenever run() returned.
ExitStatusZero(rep) == 0

\* return 0 if report.get("status") == "success" else 1
ExitStatus(rep) == IF Get(rep, "status", "") = "success" THEN 0 ELSE 1

\* run() returned its report: async_main returns the status and the process
\* exits with it.
Exit ==
  /\ pc = "done"
  /\ exit_code' = ExitStatus(report)
  /\ pc' = "exited"
  /\ UNCHANGED <<base_url, retry_delay_seconds, assistant, provider, decision,
                 max_retries, qwen_enabled, attempt, report, result,
                 browser_open, context_open, raised, body_failed, sleep_seconds,
                 report_files, page, checks>>

\* An exception left async_main (from build_config, from the runner's
\* construction or from run()): the interpreter exits with status 1.
Crash ==
  /\ pc \in {"fatal", "aborted"}
  /\ exit_code' = 1
  /\ pc' = "exited"
  /\ UNCHANGED <<base_url, retry_delay_seconds, assistant, provider, decision,
                 max_retries, qwen_enabled, attempt, report, result,
                 browser_open, context_open, raised, body_failed, sleep_seconds,
                 report_files, page, checks>>

Next ==
  \/ BuildConfig
  \/ Construct
  \/ Run
  \/ StartAttempt
  \/ Launch
  \/ NewContext
  \/ Body
  \/ Classify
  \/ Handler
  \/ CloseContext
  \/ CloseBrowser
  \/ FinalizeVideo
  \/ AfterAttempt
  \/ Decide
  \/ Sleep
  \/ WriteReport
  \/ Exit
  \/ Crash

Spec == Init /\ [][Next]_vars

-----------------------------------------------------------------------------
\* verify_dashboard on its own, over every page of the bounds.

InitVerify ==
  /\ base_url = <<"https://site.test">>
  /\ retry_delay_seconds = 3
  /\ assistant = NoAssistant
  /\ exit_code = -1
  /\ provider = ProviderReturns(<<>>)
  /\ decision = EmptyDict
  /\ max_retries = 1
  /\ qwen_enabled = FALSE
  /\ pc = "verify"
  /\ attempt = 0
  /\ report = EmptyDict
  /\ result = EmptyDict
  /\ browser_open = 0
  /\ context_open = 0
  /\ raised = NoExc
  /\ body_failed = FALSE
  /\ sleep_seconds = 0
  /\ report_files = <<>>
  /\ page \in Pages
  /\ checks = EmptyDict

VerifyDashboard ==
  /\ pc = "verify"
  /\ checks' = verify_dashboard(page)
  /\ pc' = "verified"
  /\ UNCHANGED <<process_vars, max_retries, qwen_enabled, attempt, report, result, browser_open,
                 context_open, raised, body_failed, sleep_seconds, report_files, page>>

NextVerify == VerifyDashboard

SpecVerify == InitVerify /\ [][NextVerify]_vars

-----------------------------------------------------------------------------
\* One decide call on its own, over the failure reasons, the attempt numbers,
\* the bounds and the provider's behaviours below.

\* The reason of the failed outcome handed to decide.
DecideReasons ==
  { None,
    <<>>,
    <<"Registration did not redirect to dashboard URL.">>,
    <<"Email already exists.">>,
    <<"Duplicate entry">>,
    <<"polzovatel uzhe sushchestvuet">>,
    <<"Timeout: ", "Timeout 30000ms exceeded.">>,
    <<"Unhandled error: ", "Request timed out">>,
    <<"CAPTCHA required">>,
    <<"HTTP 500">>,
    <<"Bad Gateway (502)">>,
    <<"HTTP 503 Service Unavailable">>,
    <<"Unhandled error: ", "Waited 1500 ms">>,
    <<"Duplicate entry", " ", "CAPTCHA required">>,
    <<"Timeout: ", "HTTP 503 Service Unavailable">>,
    <<"CAPTCHA required", " ", "HTTP 500">> }

\* What the provider does in the call: the behaviours of a run, and answers
\* that are empty, free text, malformed JSON, an empty object, or an object
\* with a delay that is negative or no number.
DecideProviders ==
  ProviderBehaviours \cup
  { ProviderReturns(<<>>),
    ProviderReturns(<<" ", "\n">>),
    ProviderReturns(<<"Try again", " ", "later.">>),
    ProviderReturns(<<"{", "next_action: 'wait longer'", ",", "should_retry: false">>),
    ProviderReturns(<<"{", "should_retry: false", ",", "}">>),
    ProviderReturns(<<"{", "}">>),
    ProviderReturns(<<"{", "retry_delay_seconds: -1", "}">>),
    ProviderReturns(<<"{", "should_retry: true", ",", "retry_delay_seconds: 'soon'", "}">>),
    ProviderReturns(<<"{", "next_action: ''", ",", "retry_delay_seconds: '5'", "}">>),
    ProviderReturns(<<"Stop:", " ", "{", "should_retry: false", "}", " ", "or", " ",
                      "{", "should_retry: true", "}">>),
    ProviderReturns(<<"{", "should_retry: false", ",", "retry_delay_seconds: 5", "}",
                      " ", "}">>) }

\* The failed outcome run_attempt returns for a reason.
FailedOutcome(n, reason) ==
  [attempt |-> n,
   success |-> FALSE,
   reason |-> reason,
   video_path |-> VideoPath(n),
   dashboard_checks |-> EmptyDict]

\* The reasoner is constructed (its Assistant built when delegation is
\* enabled) and decide is about to be called.
InitDecide ==
  /\ base_url = <<"https://site.test">>
  /\ retry_delay_seconds \in RetryDelays
  /\ qwen_enabled \in BOOLEAN
  /\ assistant = IF qwen_enabled THEN BuiltAssistant ELSE NoAssistant
  /\ exit_code = -1
  /\ provider \in DecideProviders
  /\ decision = EmptyDict
  /\ max_retries \in 1..MaxRetries
  /\ attempt \in 1..MaxRetries
  /\ \E reason \in DecideReasons : result = FailedOutcome(attempt, reason)
  /\ pc = "decide_call"
  /\ report = EmptyDict
  /\ browser_open = 0
  /\ context_open = 0
  /\ raised = NoExc
  /\ body_failed = FALSE
  /\ sleep_seconds = 0
  /\ report_files = <<>>
  /\ page = [dropdowns |-> 0, menus |-> 0, children |-> 0, tagged |-> 0, buttons |-> 0]
  /\ checks = EmptyDict

DecideCall ==
  /\ pc = "decide_call"
  /\ decision' = decide(qwen_enabled, assistant, provider, result, attempt, max_retries)
  /\ pc' = "decided"
  /\ UNCHANGED <<base_url, retry_delay_seconds, assistant, exit_code, provider,
                 max_retries, qwen_enabled, attempt, report, result,
                 browser_open, context_open, raised, body_failed, sleep_seconds,
                 report_files, page, checks>>

NextDecide == DecideCall

SpecDecide == InitDecide /\ [][NextDecide]_vars

-----------------------------------------------------------------------------
\* The identities of a run: generate_user_data is called once per attempt
\* and run_attempt copies the email and the name into its outcome.  The
\* attempts are taken to fail and the reasoner to retry, so that max_retries
\* identities are generated.

\* What uuid4().hex may be: the first 10 hexadecimal digits and the other 22.
\* Nothing relates one call's value to another's.
Uuid4Hex ==
  { <<"0a1b2c3d4e", "5f60718293a4b5c6d7e8f9">>,
    <<"0a1b2c3d4e", "0000000000000000000000">>,
    <<"9f8e7d6c5b", "5f60718293a4b5c6d7e8f9">> }

\* uuid4().hex[:10]
Hex10(hex) == hex[1]

\* What Faker gives for a name and for a password.
FakeNames == { <<"Ann Lee">>, <<"Bob Ray">>, <<"Cy Moss">> }

FakePassword == <<"s3cret-Passw0rd!">>

\* BrowserRegistrationFlow.generate_user_data, given what uuid4 and Faker
\* return in the call.
generate_user_data(name, hex) ==
  [name |-> name,
   email |-> <<"test+", Hex10(hex), "@example.com">>,
   password |-> FakePassword]

\* The user_data run_attempt keeps in its outcome.
OutcomeUserData(user_data) == [email |-> user_data["email"], name |-> user_data["name"]]

InitIdentity ==
  /\ base_url = <<"https://site.test">>
  /\ retry_delay_seconds = 3
  /\ assistant = NoAssistant
  /\ exit_code = -1
  /\ provider = ProviderReturns(<<>>)
  /\ decision = EmptyDict
  /\ max_retries \in 1..MaxRetries
  /\ qwen_enabled = FALSE
  /\ pc = "identity"
  /\ attempt = 1
  /\ report = [max_retries |-> max_retries,
               qwen_enabled |-> qwen_enabled,
               attempts |-> <<>>,
               status |-> "failed"]
  /\ result = EmptyDict
  /\ browser_open = 0
  /\ context_open = 0
  /\ raised = NoExc
  /\ body_failed = FALSE
  /\ sleep_seconds = 0
  /\ report_files = <<>>
  /\ page = [dropdowns |-> 0, menus |-> 0, children |-> 0, tagged |-> 0, buttons |-> 0]
  /\ checks = EmptyDict

\* One iteration of the loop: an identity is generated, the attempt made
\* with it fails, and its outcome is appended.
GenerateAndRecord ==
  /\ pc = "identity"
  /\ attempt <= max_retries
  /\ \E name \in FakeNames, hex \in Uuid4Hex :
       LET user_data == generate_user_data(name, hex)
           outcome == Put(FailedOutcome(attempt, <<"Registration did not redirect to dashboard URL.">>),
                          "user_data", OutcomeUserData(user_data))
       IN report' = Put(report, "attempts", Append(report["attempts"], outcome))
  /\ attempt' = attempt + 1
  /\ UNCHANGED <<process_vars, max_retries, qwen_enabled, pc, result,
                 browser_open, context_open, raised, body_failed, sleep_seconds,
                 report_files, page, checks>>

NextIdentity == GenerateAndRecord

SpecIdentity == InitIdentity /\ [][NextIdentity]_vars

-----------------------------------------------------------------------------
\* Properties of the run.

AllFailed(rep) == \A k \in DOMAIN rep["attempts"] : ~rep["attempts"][k]["success"]

Attempts == IF "attempts" \in DOMAIN report THEN report["attempts"] ELSE <<>>

\* Every outcome run_attempt has returned so far: the one just returned and
\* those appended to the report.
Returned ==
  (IF pc = "returned" THEN {result} ELSE {}) \cup { Attempts[k] : k \in DOMAIN Attempts }

\* The positions of run() outside a run_attempt call.
BetweenAttempts == {"run", "loop", "decide", "sleep", "write_report", "done"}

Max0(n) == IF n < 0 THEN 0 ELSE n

\* C1: when attempt k succeeds, the report (as it stands, and as written)
\* holds exactly k attempts and has status "success", and run() is past the
\* loop: no attempt is executed after the first success.
C1_FirstSuccessEndsRun ==
  /\ \A k \in DOMAIN Attempts :
       Attempts[k]["success"] =>
         /\ Len(Attempts) = k
         /\ k <= max_retries
         /\ report["status"] = "success"
         /\ pc \in {"write_report", "done", "exited"}
  /\ \A i \in DOMAIN report_files :
       \A k \in DOMAIN report_files[i]["attempts"] :
         report_files[i]["attempts"][k]["success"] =>
           /\ Len(report_files[i]["attempts"]) = k
           /\ report_files[i]["status"] = "success"

C1_Witness ==
  /\ pc = "done"
  /\ max_retries = 3
  /\ Len(report_files[1]["attempts"]) = 2
  /\ report_files[1]["attempts"][2]["success"]

\* C2 as stated (for N >= 1, where the loop body runs): a written report in
\* which every attempt failed holds exactly N attempts and has status
\* "failed", whatever the reasoner decided.
C2_AllFailExactlyN ==
  \A i \in DOMAIN report_files :
    (max_retries >= 1 /\ AllFailed(report_files[i])) =>
      /\ Len(report_files[i]["attempts"]) = max_retries
      /\ report_files[i]["status"] = "failed"

\* C2 amended: a written report in which every attempt failed has status
\* "failed" and at most max(N, 0) attempts; it holds fewer only when
\* delegation is enabled and the last recorded outcome carries a decision of
\* the provider (the one that said should_retry = false); under the heuristic
\* strategy it holds exactly max(N, 0).
C2_AllFailAtMostN ==
  \A i \in DOMAIN report_files :
    LET rep == report_files[i]
        n == Len(rep["attempts"])
    IN AllFailed(rep) =>
         /\ rep["status"] = "failed"
         /\ "successful_attempt" \notin DOMAIN rep
         /\ n <= Max0(max_retries)
         /\ ~qwen_enabled => n = Max0(max_retries)
         /\ n < Max0(max_retries) =>
              /\ n >= 1
              /\ "next_action_source" \in DOMAIN rep["attempts"][n]
              /\ rep["attempts"][n]["next_action_source"] = "qwen-agent"

C2_Witness ==
  /\ pc = "done"
  /\ max_retries = 3
  /\ AllFailed(report_files[1])
  /\ Len(report_files[1]["attempts"]) = 1
  /\ report_files[1]["status"] = "failed"

\* C3 as stated: the report never holds more attempts than max_retries, and
\* an attempt is in progress only while no attempt has succeeded and fewer
\* than max_retries are recorded.
C3_AttemptsWithinBound ==
  "attempts" \in DOMAIN report =>
    /\ Len(Attempts) <= max_retries
    /\ pc \notin (BetweenAttempts \cup {"aborted", "exited"}) =>
         /\ Len(Attempts) < max_retries
         /\ AllFailed(report)

\* With max_retries >= 0 the statement of C3 holds: it fails only on a
\* negative max_retries, for which range(1, max_retries + 1) is empty too.
AttemptsWithinBoundFromZero == max_retries >= 0 => C3_AttemptsWithinBound

\* C4: in a written report, status is "success" iff some attempt succeeded,
\* and successful_attempt is present iff status is "success", when it is the
\* number of the attempt that succeeded.
C4_StatusIffSuccess ==
  \A i \in DOMAIN report_files :
    LET rep == report_files[i]
    IN /\ rep["status"] \in {"success", "failed"}
       /\ rep["status"] = "success" <=> ~AllFailed(rep)
       /\ "successful_attempt" \in DOMAIN rep <=> rep["status"] = "success"
       /\ "successful_attempt" \in DOMAIN rep =>
            /\ rep["successful_attempt"] \in DOMAIN rep["attempts"]
            /\ rep["attempts"][rep["successful_attempt"]]["success"]
            /\ rep["attempts"][rep["successful_attempt"]]["attempt"]
                 = rep["successful_attempt"]

C4_Witness ==
  /\ pc = "done"
  /\ report_files[1]["status"] = "success"
  /\ report_files[1]["successful_attempt"] = 2
  /\ ~report_files[1]["attempts"][1]["success"]

\* C5 as stated: the report file is written exactly once however the loop
\* ends, an exception raised inside an attempt included, and only after the
\* loop.
C5_ReportWrittenOnEveryPath ==
  /\ Len(report_files) <= 1
  /\ report_files # <<>> => pc \in {"done", "exited"}
  /\ pc \in {"done", "aborted"} => Len(report_files) = 1

\* C6 as stated: once the try body of run_attempt has raised, the failure is
\* recovered: the outcome returned has success = false and a reason tagged
\* "Timeout: " or "Unhandled error: ", and no exception of the attempt (the
\* cleanup's own failures aside) leaves run_attempt.
C6_BodyFailureRecovered ==
  body_failed =>
    /\ pc = "aborted" => raised.origin = "cleanup"
    /\ pc = "returned" =>
         /\ ~result["success"]
         /\ result["reason"] # None
         /\ Head(result["reason"]) \in {"Timeout: ", "Unhandled error: "}

\* C7: whenever run_attempt returns an outcome (on the success, the
\* classified-failure and the exception path alike) its context and its
\* browser are closed and the video path is set; at most one browser and one
\* context are ever open, and none is open between two attempts.
C7_SessionReleased ==
  /\ browser_open \in 0..1
  /\ context_open \in 0..1
  /\ pc = "returned" =>
       /\ browser_open = 0
       /\ context_open = 0
       /\ result["video_path"] = VideoPath(result["attempt"])
  /\ pc \in BetweenAttempts => browser_open = 0 /\ context_open = 0
  /\ pc = "launch" => browser_open = 0 /\ context_open = 0

C7_Witness ==
  /\ pc = "returned"
  /\ body_failed
  /\ result["attempt"] = 2
  /\ result["video_path"] # None

\* C8: an outcome has success = true iff its final URL matches the dashboard
\* pattern and the verifier's result recorded in it has ok = true; an
\* attempt whose try body raised has success = false.
C8_SuccessIffUrlAndVerifier ==
  /\ \A o \in Returned :
       o["success"] <=>
         /\ "final_url" \in DOMAIN o
         /\ re_search(dashboard_url_pattern, o["final_url"])
         /\ "ok" \in DOMAIN o["dashboard_checks"]
         /\ o["dashboard_checks"]["ok"]
  /\ (pc = "returned" /\ body_failed) => ~result["success"]

C8_Witness ==
  /\ pc = "done"
  /\ Len(Attempts) = 2
  /\ "final_url" \in DOMAIN Attempts[1]
  /\ re_search(dashboard_url_pattern, Attempts[1]["final_url"])
  /\ ~Attempts[1]["dashboard_checks"]["ok"]
  /\ ~Attempts[1]["success"]
  /\ Attempts[2]["success"]

\* C9: in every outcome run_attempt returns, reason is None when success is
\* true and a non-empty str when success is false.
C9_ReasonIffFailed ==
  \A o \in Returned :
    /\ o["success"] => o["reason"] = None
    /\ ~o["success"] => o["reason"] # None /\ o["reason"] # <<>>

C9_Witness ==
  /\ pc = "returned"
  /\ ~result["success"]
  /\ "final_url" \in DOMAIN result
  /\ ~re_search(dashboard_url_pattern, result["final_url"])
  /\ result["reason"] = <<"Registration did not redirect to dashboard URL.">>

-----------------------------------------------------------------------------
\* Properties of verify_dashboard.

\* The four checks, as they fail on a page.  Without the container there is
\* no menu inside it, and without a menu there are no items.
NoDropdown(p) == p.dropdowns = 0

NoMenu(p) == NoDropdown(p) \/ p.menus = 0

FewItems(p) == NoMenu(p) \/ (IF p.children = 0 THEN p.tagged ELSE p.children) < 2

NoButton(p) == p.buttons = 0

FailedSentences(p) ==
  SelectSeq(<<ProblemNoDropdown, ProblemNoMenu, ProblemFewItems, ProblemNoButton>>,
            LAMBDA s : \/ s = ProblemNoDropdown /\ NoDropdown(p)
                       \/ s = ProblemNoMenu /\ NoMenu(p)
                       \/ s = ProblemFewItems /\ FewItems(p)
                       \/ s = ProblemNoButton /\ NoButton(p))

ReasonPerFailedCheck ==
  pc = "verified" =>
    /\ checks["ok"] <=> FailedSentences(page) = <<>>
    /\ ~checks["ok"] => checks["reason"] = Join(Space, FailedSentences(page))

\* C10 as stated: ok is false whenever a check fails and the reason is one
\* sentence per failed check, in order, space-joined; a page with neither the
\* primary selector nor the action control gets two sentences, the selector's
\* first.
C10_TwoSentences ==
  /\ ReasonPerFailedCheck
  /\ (pc = "verified" /\ NoDropdown(page) /\ NoButton(page)) =>
       checks["reason"] = ProblemNoDropdown \o Space \o ProblemNoButton

\* C10 amended: as above, but a page without the primary selector fails the
\* menu check and the item check with it, so a page with neither the primary
\* selector nor the action control gets all four sentences, the selector's
\* first.
C10_FourSentences ==
  /\ ReasonPerFailedCheck
  /\ (pc = "verified" /\ NoDropdown(page) /\ NoButton(page)) =>
       checks["reason"] =
         ProblemNoDropdown \o Space \o ProblemNoMenu \o Space
           \o ProblemFewItems \o Space \o ProblemNoButton

C10_Witness ==
  /\ pc = "verified"
  /\ page.dropdowns = 0
  /\ page.buttons = 0
  /\ ~checks["ok"]
  /\ Len(checks["reason"]) = 7

-----------------------------------------------------------------------------
\* Properties of decide.

\* The heuristic alone: what _fallback returns for the call examined.
Heuristic == fallback(result, attempt, max_retries)

\* The decision is the heuristic's own (delegation disabled).
HeuristicDecided == pc = "decided" /\ ~qwen_enabled

\* C11: whatever the failure reason (duplicate, timeout, CAPTCHA and server
\* error included), the attempt number and max_retries, the heuristic decision
\* has should_retry = (attempt < max_retries); a CAPTCHA reason does not
\* force should_retry to false.
C11_HeuristicRetriesBelowBound ==
  /\ HeuristicDecided =>
       /\ decision["source"] = "heuristic"
       /\ decision["should_retry"] <=> attempt < max_retries
  /\ (pc = "decided" /\ decision["source"] = "heuristic") =>
       (decision["should_retry"] <=> attempt < max_retries)

C11_Witness ==
  /\ HeuristicDecided
  /\ result["reason"] = <<"CAPTCHA required">>
  /\ attempt = 1
  /\ max_retries = 2
  /\ decision["next_action"] = AdviceCaptcha
  /\ decision["should_retry"]

\* The rule set of the heuristic, in order: the markers of each rule and its
\* advice.
Rules ==
  << [markers |-> {"already", "duplicate", "sushchestv"}, advice |-> AdviceNewIdentity],
     [markers |-> {"timeout", "timed out"}, advice |-> AdviceIncreaseWait],
     [markers |-> {"captcha"}, advice |-> AdviceCaptcha],
     [markers |-> {"500", "502", "503"}, advice |-> AdviceServerError] >>

\* The rules a reason matches, whatever its case; a missing reason matches none.
Matching(reason) ==
  { i \in DOMAIN Rules :
      \E m \in Rules[i].markers : In(m, Lower(IF reason = None THEN <<>> ELSE reason)) }

\* The advice of the earliest matching rule, the generic one when none matches.
FirstRuleAdvice(reason) ==
  IF Matching(reason) = {} THEN AdviceGeneric
  ELSE Rules[CHOOSE i \in Matching(reason) : \A j \in Matching(reason) : i <= j].advice

\* C12: the heuristic's advisory text is the advice of the first rule, in the
\* order duplicate / timeout / captcha / server error, whose marker occurs in
\* the reason whatever its case, and the generic advice when no rule matches
\* or the reason is missing.
C12_FirstMatchingRule ==
  (pc = "decided" /\ decision["source"] = "heuristic") =>
     /\ decision["next_action"] = FirstRuleAdvice(result["reason"])
     /\ result["reason"] \in {None, <<>>} => decision["next_action"] = AdviceGeneric

C12_Witness ==
  /\ HeuristicDecided
  /\ result["reason"] = <<"Duplicate entry", " ", "CAPTCHA required">>
  /\ Matching(result["reason"]) = {1, 3}
  /\ decision["next_action"] = AdviceNewIdentity

\* What decide returns for the same outcome, attempt and max_retries with
\* delegation disabled.
HeuristicAlone == decide(FALSE, NoAssistant, provider, result, attempt, max_retries)

\* The decision is the heuristic's, with the provider's error recorded.
FellBack(error) ==
  /\ decision["next_action"] = HeuristicAlone["next_action"]
  /\ decision["should_retry"] = HeuristicAlone["should_retry"]
  /\ decision["retry_delay_seconds"] = HeuristicAlone["retry_delay_seconds"]
  /\ decision["source"] = "heuristic"
  /\ DOMAIN decision = DOMAIN HeuristicAlone \cup {"framework_error"}
  /\ decision["framework_error"] = error

\* C13: with delegation enabled, when the provider call raises, decide
\* returns (it does not raise) the decision the heuristic alone gives for the
\* same outcome, attempt and max_retries, with source "heuristic" and the
\* provider's error in framework_error.
C13_ProviderErrorFallsBack ==
  (pc = "decided" /\ qwen_enabled /\ provider.raises) =>
     FellBack(<<"Qwen-Agent call failed: ">> \o provider.text)

C13_Witness ==
  /\ pc = "decided"
  /\ qwen_enabled
  /\ provider = ProviderRaises(<<"Connection refused">>)
  /\ attempt = 2
  /\ max_retries = 2
  /\ result["reason"] = <<"Timeout: ", "Timeout 30000ms exceeded.">>
  /\ decision["next_action"] = AdviceIncreaseWait
  /\ ~decision["should_retry"]
  /\ decision["framework_error"] = <<"Qwen-Agent call failed: ", "Connection refused">>

\* The provider returned text in which _try_extract_json finds no JSON
\* object: empty text, free text, malformed JSON.
Unparsable == ~provider.raises /\ try_extract_json(provider.text).is_none

\* C14 as stated: with delegation enabled, when the provider's answer cannot
\* be parsed into a JSON object, decide returns the heuristic's decision:
\* source "heuristic", the heuristic's next_action, should_retry and
\* retry_delay_seconds, and the provider's error recorded.
C14_UnparsableFallsBack ==
  (pc = "decided" /\ qwen_enabled /\ Unparsable) =>
     /\ decision["source"] = "heuristic"
     /\ decision["next_action"] = HeuristicAlone["next_action"]
     /\ decision["should_retry"] = HeuristicAlone["should_retry"]
     /\ decision["retry_delay_seconds"] = HeuristicAlone["retry_delay_seconds"]
     /\ "framework_error" \in DOMAIN decision

-----------------------------------------------------------------------------
\* Properties of the process.

\* C15 as stated: with delegation enabled and the Assistant impossible to
\* build, the run is not aborted: the process does not stop on the error, it
\* exits only after a report was written, and every decision recorded in the
\* report is the heuristic's with the provider's error attached.
C15_UnavailableProviderRunsOn ==
  (qwen_enabled /\ assistant = FailedAssistant) =>
     /\ pc # "fatal"
     /\ pc = "exited" => Len(report_files) = 1
     /\ \A k \in DOMAIN Attempts :
          "next_action_source" \in DOMAIN Attempts[k] =>
             /\ Attempts[k]["next_action_source"] = "heuristic"
             /\ "framework_error" \in DOMAIN Attempts[k]

\* C16 as stated: when the decision in effect is the heuristic's, run()
\* sleeps between two attempts for AgentConfig.retry_delay_seconds, whatever
\* value is configured.
C16_HeuristicDelayIsConfigured ==
  (pc = "sleep" /\ LastOutcome["next_action_source"] = "heuristic") =>
     sleep_seconds = retry_delay_seconds

\* C17 as stated: every decision decide returns, under either strategy and
\* whatever the provider answered, has a retry_delay_seconds that is a
\* non-negative integer.
C17_DelayNonNegative ==
  pc = "decided" => decision["retry_delay_seconds"] \in Nat

\* The number of attempts the heuristic strategy alone executes when the
\* attempts have the outcomes recorded in rep: up to the first success, or
\* max_retries of them when none succeeds.
HeuristicRunLength(rep) ==
  IF AllFailed(rep) THEN Max0(rep["max_retries"])
  ELSE CHOOSE k \in DOMAIN rep["attempts"] :
         /\ rep["attempts"][k]["success"]
         /\ \A j \in 1..(k - 1) : ~rep["attempts"][j]["success"]

\* The final status and the successful attempt index are those of the
\* outcomes recorded.
StatusFollowsOutcomes(rep) ==
  /\ rep["status"] = (IF AllFailed(rep) THEN "failed" ELSE "success")
  /\ "successful_attempt" \in DOMAIN rep <=> ~AllFailed(rep)
  /\ ~AllFailed(rep) => rep["successful_attempt"] = HeuristicRunLength(rep)

ConfigFatal == base_url = <<>> \/ max_retries < 1

\* C19 as stated: with a fatal configuration no attempt is executed, no
\* report file is written, and the process exits with a non-zero status.
C19_ConfigFatalStopsBeforeRun ==
  ConfigFatal =>
     /\ Attempts = <<>>
     /\ pc \notin {"launch", "new_context", "body", "classify", "handler",
                   "close_context", "close_browser", "finalize_video", "returned"}
     /\ report_files = <<>>
     /\ pc = "exited" => exit_code # 0

\* C20: when run() returned its report and the process exited, the exit
\* status is 0 if the report's status is "success" and 1 otherwise.
C20_ExitCodeIffSuccess ==
  (pc = "exited" /\ report_files # <<>>) =>
     /\ exit_code \in {0, 1}
     /\ exit_code = 0 <=> report["status"] = "success"
     /\ report_files = <<report>>

C20_Witness ==
  /\ pc = "exited"
  /\ report_files # <<>>
  /\ report["status"] = "success"
  /\ report["successful_attempt"] = 2
  /\ exit_code = 0

-----------------------------------------------------------------------------
\* Properties of the identities.

\* C21 as stated: no two outcomes of a run carry the same email address.
C21_EmailsDistinct ==
  pc = "identity" =>
    \A i, j \in DOMAIN Attempts :
      i # j => Attempts[i]["user_data"]["email"] # Attempts[j]["user_data"]["email"]

-----------------------------------------------------------------------------
\* Properties of the loop's steps.

\* The outcome carries a decision's advisory text and provenance.
IsAnnotated(outcome) ==
  "next_action" \in DOMAIN outcome /\ "next_action_source" \in DOMAIN outcome

\* Where the reasoner is invoked and where it was: it is about to be called
\* only for a failed attempt that is not the last allowed one and has no
\* decision yet; an outcome that carries a decision is a failed one before
\* the last allowed attempt; every attempt followed by another one carries a
\* decision, and so does the last one while run() sleeps.
ReasonerPlacement ==
  /\ pc = "decide" =>
       /\ Len(Attempts) = attempt
       /\ ~LastOutcome["success"]
       /\ attempt < max_retries
       /\ ~IsAnnotated(LastOutcome)
  /\ \A k \in DOMAIN Attempts :
       /\ IsAnnotated(Attempts[k]) => ~Attempts[k]["success"] /\ k < max_retries
       /\ k < Len(Attempts) => IsAnnotated(Attempts[k])
  /\ pc = "sleep" => Len(Attempts) = attempt /\ IsAnnotated(LastOutcome)

\* One step of run(): after an attempt the reasoner is next exactly when the
\* attempt failed and is not the last allowed; the decide step annotates the
\* outcome and either starts the sleep of the decision's delay or, when
\* should_retry is false, ends the loop without a sleep; an attempt starts
\* only from the loop's entry or from a sleep that completed; once the loop
\* has ended the report is written.
StepOrder ==
  /\ pc = "returned" =>
       pc' = IF ~result["success"] /\ attempt < max_retries THEN "decide" ELSE "write_report"
  /\ pc = "decide" =>
       \E prov \in ProviderBehaviours :
         LET d == decide(qwen_enabled, assistant, prov, LastOutcome, attempt, max_retries)
         IN /\ IsAnnotated(LastOutcome')
            /\ LastOutcome'["next_action"] = d["next_action"]
            /\ LastOutcome'["next_action_source"] = d["source"]
            /\ Len(Attempts') = Len(Attempts)
            /\ attempt' = attempt
            /\ IF d["should_retry"]
                 THEN pc' = "sleep" /\ sleep_seconds' = d["retry_delay_seconds"]
                 ELSE pc' = "write_report" /\ sleep_seconds' = sleep_seconds
  /\ pc = "sleep" => pc' = "loop" /\ attempt' = attempt + 1
  /\ pc' = "loop" => pc \in {"run", "sleep"}
  /\ pc = "write_report" => pc' = "done" /\ Attempts' = Attempts

\* C22: the reasoner is invoked once after each failed attempt that is not
\* the last allowed one, never after a success or after the last allowed
\* attempt; the outcome is annotated with next_action and source before any
\* sleep; with should_retry false the loop ends with no sleep and no further
\* attempt, otherwise the sleep of retry_delay_seconds completes before the
\* next attempt starts.
C22_StepOrdering == []ReasonerPlacement /\ [][StepOrder]_vars

C22_Witness ==
  /\ pc = "sleep"
  /\ qwen_enabled
  /\ max_retries = 3
  /\ attempt = 2
  /\ Attempts[1]["next_action_source"] = "heuristic"
  /\ Attempts[2]["next_action_source"] = "qwen-agent"
  /\ sleep_seconds = 0

-----------------------------------------------------------------------------
\* Properties of the tolerant parsing.

\* The first well-formed JSON object embedded in a text: it starts at the
\* first "{" from which some well-formed object starts, and ends at the
\* nearest "}" that closes one.
ObjectAt(raw, i, j) ==
  /\ i \in DOMAIN raw
  /\ j \in DOMAIN raw
  /\ i < j
  /\ IsJsonObject(SubSeq(raw, i, j))

HasEmbeddedObject(raw) == \E i, j \in DOMAIN raw : ObjectAt(raw, i, j)

FirstEmbeddedObject(raw) ==
  LET i == CHOOSE a \in DOMAIN raw :
             /\ \E b \in DOMAIN raw : ObjectAt(raw, a, b)
             /\ \A c \in 1..(a - 1) : ~\E b \in DOMAIN raw : ObjectAt(raw, c, b)
      j == CHOOSE b \in DOMAIN raw :
             /\ ObjectAt(raw, i, b)
             /\ \A c \in (i + 1)..(b - 1) : ~ObjectAt(raw, i, c)
  IN SubSeq(raw, i, j)

\* The provider's answer is no JSON object as a whole, and a well-formed,
\* non-empty object whose delay int() reads is embedded in it.
EmbeddedAnswer ==
  /\ ~provider.raises
  /\ ~IsJsonObject(Strip(provider.text))
  /\ HasEmbeddedObject(provider.text)
  /\ DOMAIN JsonObject(FirstEmbeddedObject(provider.text)) # {}
  /\ ~parse_response_raises(FirstEmbeddedObject(provider.text))

\* The decision's three fields are read from the object.
UsesObject(object) ==
  /\ decision["source"] = "qwen-agent"
  /\ decision["next_action"] = parse_response(object)["next_action"]
  /\ decision["should_retry"] = parse_response(object)["should_retry"]
  /\ decision["retry_delay_seconds"] = parse_response(object)["retry_delay_seconds"]

\* C23 as stated: when the whole answer is no JSON object, the first
\* well-formed object embedded in it gives next_action, should_retry and
\* retry_delay_seconds, also when the text holds a second object or stray
\* braces after the first.
C23_FirstEmbeddedObjectUsed ==
  (pc = "decided" /\ qwen_enabled /\ EmbeddedAnswer) =>
     UsesObject(FirstEmbeddedObject(provider.text))

\* With a single "{" and a single "}" in the answer the statement of C23
\* holds: it fails only when braces follow the first object.
OneBracePair ==
  /\ Cardinality({i \in DOMAIN provider.text : provider.text[i] = "{"}) = 1
  /\ Cardinality({i \in DOMAIN provider.text : provider.text[i] = "}"}) = 1

SingleEmbeddedObjectUsed ==
  (pc = "decided" /\ qwen_enabled /\ EmbeddedAnswer /\ OneBracePair) =>
     UsesObject(FirstEmbeddedObject(provider.text))

SingleEmbeddedObjectSeen ==
  /\ pc = "decided"
  /\ qwen_enabled
  /\ EmbeddedAnswer
  /\ OneBracePair
  /\ decision["retry_delay_seconds"] = 0

-----------------------------------------------------------------------------
\* Properties of the heuristic strategy and of the attempts list.

\* C24 as stated: with delegation disabled decide is called only with
\* attempt < max_retries, run() never goes from a decision to the end of the
\* loop, and a written report holds k attempts when attempt k is the first to
\* succeed and max_retries attempts when none succeeds.
C24_HeuristicNeverStopsEarly ==
  ~qwen_enabled =>
     /\ pc = "decide" => attempt < max_retries
     /\ pc = "sleep" => LastOutcome["next_action_source"] = "heuristic"
     /\ \A i \in DOMAIN report_files :
          LET rep == report_files[i]
          IN Len(rep["attempts"]) =
               IF AllFailed(rep) THEN max_retries
               ELSE CHOOSE k \in DOMAIN rep["attempts"] :
                      /\ rep["attempts"][k]["success"]
                      /\ k <= max_retries
                      /\ \A j \in 1..(k - 1) : ~rep["attempts"][j]["success"]

\* With max_retries >= 0 the statement of C24 holds: it fails only on a
\* negative max_retries, where the report holds 0 attempts.
HeuristicNeverStopsEarlyFromZero == max_retries >= 0 => C24_HeuristicNeverStopsEarly

\* An attempts list in order: the i-th outcome has attempt number i, and
\* every outcome but the last has success = false.
Ordered(outcomes) ==
  \A i \in DOMAIN outcomes :
    /\ outcomes[i]["attempt"] = i
    /\ outcomes[i]["success"] => i = Len(outcomes)

AttemptsOrdered ==
  /\ Ordered(Attempts)
  /\ \A f \in DOMAIN report_files : Ordered(report_files[f]["attempts"])

\* One step on the attempts list: nothing is removed or reordered, at most
\* one outcome is added, at the end, and it is the one run_attempt returned;
\* an outcome already recorded keeps every entry it has, except that the
\* decision of the reasoner is written into the last one.
AppendOnly ==
  /\ Len(Attempts') \in {Len(Attempts), Len(Attempts) + 1}
  /\ \A i \in DOMAIN Attempts :
       IF i < Len(Attempts) \/ pc # "decide"
         THEN Attempts'[i] = Attempts[i]
         ELSE \A key \in DOMAIN Attempts[i] \ {"next_action", "next_action_source", "framework_error"} :
                key \in DOMAIN Attempts'[i] /\ Attempts'[i][key] = Attempts[i][key]
  /\ Len(Attempts') = Len(Attempts) + 1 =>
       /\ pc = "returned"
       /\ Attempts'[Len(Attempts')] = result
       /\ Len(Attempts') = attempt

\* C25: in every reachable state of a run the i-th recorded outcome has
\* attempt number i and only the last recorded outcome can have success =
\* true, in the report and in every written report; and in every step the
\* attempts list is append-only: no outcome is removed or reordered.
C25_AttemptsAppendOnlyOrdered == []AttemptsOrdered /\ [][AppendOnly]_vars

\* A run of three attempts: two failures, each with its decision, and then
\* the success, recorded in this order.
C25_Witness ==
  /\ pc = "done"
  /\ Len(Attempts) = 3
  /\ Attempts[1]["attempt"] = 1 /\ ~Attempts[1]["success"] /\ IsAnnotated(Attempts[1])
  /\ Attempts[2]["attempt"] = 2 /\ ~Attempts[2]["success"] /\ IsAnnotated(Attempts[2])
  /\ Attempts[3]["attempt"] = 3 /\ Attempts[3]["success"]
  /\ report_files = <<report>>

====
